---- MODULE Spec2Model ----
(***************************************************************************)
(* Model of omr/exam.py: the processing of one scanned exam sheet.         *)
(*                                                                         *)
(* An image is a record [h, w, px] with px a function on (1..h) \X (1..w)  *)
(* (numpy's 0-based index k is k+1 here).  A real number is kept exact: a  *)
(* mean is the pair [s, n] of a sum and a count (n = 0 is numpy's nan, the *)
(* mean of an empty slice), a threshold is the pair [n, d] of a numerator  *)
(* and a denominator, and comparisons are cross-multiplied.                *)
(***************************************************************************)
EXTENDS Integers, Sequences, FiniteSets, TLC

VARIABLES
    pc,        \* position in the function being run
    img,       \* the image array the function works on
    form,      \* the Form object's fields
    oldsize,   \* trim_margins: shape at the start of the current pass
    i,         \* trim_margins: index of the for loop
    run,       \* how many times the function under study has been entered
    input,     \* the image handed to the function (kept for the properties)
    first,     \* the value returned by the first run
    fit,       \* fit_reference: per-box offsets
    meanfit,   \* fit_reference: aggregated offset
    means,     \* bubble means
    choice,    \* choose_answers' return value
    result,    \* what the function returned or raised
    env        \* the diagnostics steps that fail in this run

vars == <<pc, img, form, oldsize, i, run, input, first, fit, meanfit, means,
          choice, result, env>>

None == "None"

\* What a function gave back: nothing yet, a value, or an exception.
Pending == [status |-> "pending", value |-> None]

Returned(v) == [status |-> "returned", value |-> v]

Raised(e) == [status |-> e, value |-> None]

(***************************************************************************)
(* Bounds of the model.                                                    *)
(***************************************************************************)
MaxTrimH == 3
MaxTrimW == 3
MaxInk == 3
MaxRows == 2
MaxCols == 3
MaxMarks == 3
MaxDev == 3
RefSide == 4
MaxRadius == 2
MaxBoxes == 2
ExamSide == 32

(***************************************************************************)
(* Arithmetic helpers.                                                     *)
(***************************************************************************)
Abs(x) == IF x < 0 THEN -x ELSE x

Min(a, b) == IF a < b THEN a ELSE b

Max(a, b) == IF a < b THEN b ELSE a

\* float -> C int conversion of a quotient a / b (b > 0): truncation toward zero
AsTypeI(a, b) == IF a >= 0 THEN a \div b ELSE -((-a) \div b)

(***************************************************************************)
(* Images.                                                                 *)
(***************************************************************************)
Black == 0

White == 255

Shape(m) == <<m.h, m.w>>

MkImage(h, w, ink) ==
    [h |-> h, w |-> w,
     px |-> [p \in (1..h) \X (1..w) |-> IF p \in ink THEN Black ELSE White]]

\* num.rot90(m): counterclockwise quarter turn, shape (H, W) -> (W, H),
\* out[r, c] = m[c, W-1-r] (0-based)
rot90(m) ==
    [h |-> m.w, w |-> m.h,
     px |-> [p \in (1..m.w) \X (1..m.h) |-> m.px[<<p[2], m.w + 1 - p[1]>>]]]

\* img[1:, :]
DropFirstRow(m) ==
    [h |-> Max(m.h - 1, 0), w |-> m.w,
     px |-> [p \in (1..Max(m.h - 1, 0)) \X (1..m.w) |-> m.px[<<p[1] + 1, p[2]>>]]]

RECURSIVE RowSum(_, _, _)
RowSum(m, r, c) == IF c = 0 THEN 0 ELSE m.px[<<r, c>>] + RowSum(m, r, c - 1)

RECURSIVE RowSumSq(_, _, _)
RowSumSq(m, r, c) ==
    IF c = 0 THEN 0 ELSE m.px[<<r, c>>] * m.px[<<r, c>>] + RowSumSq(m, r, c - 1)

\* num.std(img[r, :]) < t, for t >= 0.  The standard deviation of an empty row
\* is nan and nan < t is False.  std^2 = q/n - (s/n)^2.
StdBelow(m, r, t) ==
    /\ m.w > 0
    /\ t > 0
    /\ m.w * RowSumSq(m, r, m.w) - RowSum(m, r, m.w) * RowSum(m, r, m.w)
         < t * t * m.w * m.w

(***************************************************************************)
(* Form.trim_margins                                                       *)
(***************************************************************************)
\* One iteration of the for loop: rotate, then look at the leading row.
\* img[0, :] raises IndexError when the rotated image has no row.
\* The value is [raised, img]: whether IndexError was raised, and the image.
TrimStepKeepEmpty(m, t) ==
    LET r == rot90(m) IN
    IF r.h = 0 THEN [raised |-> FALSE, img |-> r]
    ELSE [raised |-> FALSE, img |-> IF StdBelow(r, 1, t) THEN DropFirstRow(r) ELSE r]

TrimStep(m, t) ==
    LET r == rot90(m) IN
    IF r.h = 0 THEN [raised |-> TRUE, img |-> r]
    ELSE [raised |-> FALSE, img |-> IF StdBelow(r, 1, t) THEN DropFirstRow(r) ELSE r]

\* a loop test that looks at the height alone
SizeChangedHeightOnly(old, m) == old[1] # m.h

\* oldsize != img.shape
SizeChanged(old, m) == old # Shape(m)

\* while oldsize != img.shape: oldsize = img.shape
TrimWhile ==
    /\ pc = "trim_while"
    /\ IF SizeChanged(oldsize, img)
       THEN /\ oldsize' = Shape(img)
            /\ i' = 0
            /\ pc' = "trim_for"
            /\ UNCHANGED result
       ELSE /\ pc' = "trim_done"
            /\ result' = Returned(img)
            /\ UNCHANGED <<oldsize, i>>
    /\ UNCHANGED <<img, form, run, input, first, fit, meanfit, means, choice, env>>

\* for i in range(4): img = rot90(img); if std(img[0,:]) < trim_std: img = img[1:,:]
TrimFor ==
    /\ pc = "trim_for"
    /\ IF i < 4
       THEN LET next == TrimStep(img, form.trim_std) IN
            IF next.raised
            THEN /\ pc' = "trim_error"
                 /\ result' = Raised("IndexError")
                 /\ img' = next.img
                 /\ UNCHANGED i
            ELSE /\ img' = next.img
                 /\ i' = i + 1
                 /\ UNCHANGED <<pc, result>>
       ELSE /\ pc' = "trim_while"
            /\ UNCHANGED <<img, i, result>>
    /\ UNCHANGED <<form, oldsize, run, input, first, fit, meanfit, means, choice, env>>

\* trim_margins applied to the image the first call returned
TrimAgain ==
    /\ pc = "trim_done"
    /\ run = 1
    /\ run' = 2
    /\ first' = result.value
    /\ oldsize' = <<0, 0>>
    /\ pc' = "trim_while"
    /\ result' = Pending
    /\ UNCHANGED <<img, form, i, input, fit, meanfit, means, choice, env>>

Cells(h, w) == (1..h) \X (1..w)

InkSets(h, w) == {s \in SUBSET Cells(h, w) : Cardinality(s) <= MaxInk}

\* a white page with a few ink pixels
TrimImages ==
    UNION {UNION {{MkImage(h, w, s) : s \in InkSets(h, w)}
                  : w \in 1..MaxTrimW} : h \in 1..MaxTrimH}

TrimStds == {0, 100, 125}

\* the class attributes of Form (a threshold x is the fraction n/d); None and
\* the empty list are both written <<>>
NoForm ==
    [size |-> <<0, 0>>, offset |-> <<0, 0>>, pos |-> <<0, 0>>, bub |-> <<0, 0>>,
     space |-> <<0, 0>>, info |-> <<>>, score |-> <<>>, refzone |-> <<>>,
     expected_size |-> <<0, 0>>,
     size_tolerance |-> <<[n |-> 0, d |-> 1], [n |-> 0, d |-> 1]>>,
     contrast |-> 0, trim_std |-> 0, radius |-> 0, min_ref |-> 0,
     signal |-> [n |-> 0, d |-> 1], ref_rc |-> <<>>, coords |-> <<>>]

TrimInit ==
    /\ img \in TrimImages
    /\ input = img
    /\ \E t \in TrimStds : form = [NoForm EXCEPT !.trim_std = t]
    /\ pc = "trim_while"
    /\ oldsize = <<0, 0>>
    /\ i = 0
    /\ run = 1
    /\ first = None
    /\ fit = None
    /\ meanfit = None
    /\ means = None
    /\ choice = None
    /\ result = Pending
    /\ env = {}

TrimNext == TrimWhile \/ TrimFor \/ TrimAgain

\* trim_margins is straight-line sequential code: a step that can run, runs
SpecTrim == TrimInit /\ [][TrimNext]_vars /\ WF_vars(TrimNext)

IsEmpty(m) == m.h = 0 \/ m.w = 0

TrimFinished == pc = "trim_error" \/ (pc = "trim_done" /\ run = 2)

\* every row and every column of m has a standard deviation below t
AllEdgesLow(m, t) ==
    /\ \A r \in 1..m.h : StdBelow(m, r, t)
    /\ \A c \in 1..m.w : StdBelow(rot90(m), c, t)

\* C6: trim_margins is idempotent: applied to the image a first call returned,
\* it raises nothing and returns an image of the same shape, orientation and
\* pixel values.
C6_TrimIdempotent ==
    /\ run = 2 => pc # "trim_error"
    /\ (run = 2 /\ pc = "trim_done") => result.value = first

\* a second call has returned on an image the first call had really trimmed
C6_Witness ==
    /\ run = 2
    /\ pc = "trim_done"
    /\ first.h < input.h
    /\ first.w < input.w
    /\ result.value = first

\* C7, as stated: trim_margins ends, and on an image whose rows and columns are
\* all below the threshold it ends with an error.
C7_AllLowFails ==
    (pc = "trim_done" /\ run = 1) => ~AllEdgesLow(input, form.trim_std)

\* C7, amended: trim_margins ends on every image; it never returns an empty
\* image; and once trimming has emptied the image it ends with an error.
C7_TrimTerminates ==
    /\ <>TrimFinished
    /\ [](pc = "trim_done" => ~IsEmpty(img))
    /\ (IsEmpty(img) ~> pc = "trim_error")

\* a uniform page was trimmed to nothing and the call raised
C7_Witness ==
    /\ pc = "trim_error"
    /\ result.status = "IndexError"
    /\ IsEmpty(img)
    /\ ~IsEmpty(input)
    /\ AllEdgesLow(input, form.trim_std)

(***************************************************************************)
(* Form.choose_answers                                                     *)
(***************************************************************************)
Mean(s, n) == [s |-> s, n |-> n]

IsNan(a) == a.n = 0

\* a < b on two means; False when either is nan
Less(a, b) == ~IsNan(a) /\ ~IsNan(b) /\ a.s * b.n < b.s * a.n

\* the index of the largest mean
ArgMax(row) ==
    CHOOSE j \in 1..Len(row) : \A k \in 1..Len(row) : ~Less(row[j], row[k])

\* num.argmin of one row, 1-based: the first nan if there is one, else the
\* first index holding the smallest value
ArgMin(row) ==
    IF \E j \in 1..Len(row) : IsNan(row[j])
    THEN CHOOSE j \in 1..Len(row) :
             IsNan(row[j]) /\ \A k \in 1..(j - 1) : ~IsNan(row[k])
    ELSE CHOOSE j \in 1..Len(row) :
             /\ \A k \in 1..Len(row) : ~Less(row[k], row[j])
             /\ \A k \in 1..(j - 1) : Less(row[j], row[k])

RECURSIVE Insert(_, _)
Insert(x, sorted) ==
    IF sorted = <<>> THEN <<x>>
    ELSE IF IsNan(Head(sorted)) \/ Less(x, Head(sorted))
         THEN <<x>> \o sorted
         ELSE <<Head(sorted)>> \o Insert(x, Tail(sorted))

\* num.sort of one row: ascending, nan last
RECURSIVE Sort(_)
Sort(row) == IF row = <<>> THEN <<>> ELSE Insert(Head(row), Sort(Tail(row)))

\* second / smallest < sig
SignalBelow(lo, hi, sig) ==
    /\ ~IsNan(lo) /\ ~IsNan(hi)
    /\ lo.s # 0
    /\ hi.s * lo.n * sig.d < sig.n * hi.n * lo.s

\* sorted_rows[:,1] / sorted_rows[:,0] <= self.signal, for lo = sorted_rows[r,0]
\* and hi = sorted_rows[r,1].  x/0 is inf, 0/0 and anything with nan is nan, and
\* neither is <= a finite signal.
SignalAtMost(lo, hi, sig) ==
    /\ ~IsNan(lo) /\ ~IsNan(hi)
    /\ lo.s # 0
    /\ hi.s * lo.n * sig.d <= sig.n * hi.n * lo.s

\* the value of choose_answers(means), with columns numbered from 0
choose_answers(m, sig) ==
    LET argmin == [r \in 1..Len(m) |-> ArgMin(m[r]) - 1] IN
    IF sig.n = 0 THEN Returned(argmin)
    ELSE IF \E r \in 1..Len(m) : Len(m[r]) < 2 THEN Raised("IndexError")
    ELSE Returned([r \in 1..Len(m) |->
             LET sorted_row == Sort(m[r]) IN
             IF SignalAtMost(sorted_row[1], sorted_row[2], sig)
             THEN -1 ELSE argmin[r]])

ChooseAnswers ==
    /\ pc = "choose_answers"
    /\ result' = choose_answers(means, form.signal)
    /\ choice' = result'.value
    /\ pc' = "choose_done"
    /\ UNCHANGED <<img, form, oldsize, i, run, input, first, fit, meanfit, means, env>>

MarkValues == {0, 10, 12}

Signals == {[n |-> 0, d |-> 1], [n |-> 1, d |-> 2], [n |-> 9, d |-> 10],
            [n |-> 6, d |-> 5], [n |-> 3, d |-> 2]}

\* the bubble means of a sheet: light cells, and a few marked ones
MeansOf(rows, cols, marks) ==
    [r \in 1..rows |-> [c \in 1..cols |->
        IF <<r, c>> \in DOMAIN marks THEN Mean(marks[<<r, c>>], 1) ELSE Mean(White, 1)]]

MarkSets(rows, cols) ==
    UNION {[cs -> MarkValues] :
             cs \in {x \in SUBSET Cells(rows, cols) : Cardinality(x) <= MaxMarks}}

ChooseInit ==
    /\ \E rows \in 1..MaxRows, cols \in 1..MaxCols :
          /\ \E marks \in MarkSets(rows, cols) : means = MeansOf(rows, cols, marks)
          /\ \E sig \in Signals :
                form = [NoForm EXCEPT !.size = <<rows, cols>>, !.signal = sig]
    /\ pc = "choose_answers"
    /\ img = MkImage(0, 0, {})
    /\ input = img
    /\ oldsize = <<0, 0>>
    /\ i = 0
    /\ run = 1
    /\ first = None
    /\ fit = None
    /\ meanfit = None
    /\ choice = None
    /\ result = Pending
    /\ env = {}

ChooseNext == ChooseAnswers

SpecChoose == ChooseInit /\ [][ChooseNext]_vars

Rows == 1..form.size[1]

Cols == 1..form.size[2]

SignalIs(n, d) == form.signal.n # 0 /\ form.signal.n * d = n * form.signal.d

\* a <= b on two means that are numbers
AtMost(a, b) == a.s * b.n <= b.s * a.n

\* cells j and k hold the smallest and the second smallest mean of the row
TwoDarkestAt(row, j, k) ==
    /\ j # k
    /\ AtMost(row[j], row[k])
    /\ \A c \in DOMAIN row \ {j, k} : AtMost(row[k], row[c])

\* the two darkest cells of the row have the means a and b
TwoDarkest(row, a, b) ==
    \E j, k \in DOMAIN row :
        TwoDarkestAt(row, j, k) /\ row[j] = Mean(a, 1) /\ row[k] = Mean(b, 1)

\* C4, as stated: with the two darkest means 10 and 12, the row is -1 under the
\* threshold 0.9 and keeps the darkest index under the threshold 0.5.
C4_AmbiguityAsStated ==
    (pc = "choose_done" /\ result.status = "returned") =>
        \A r \in Rows : TwoDarkest(means[r], 10, 12) =>
            /\ SignalIs(9, 10) => choice[r] = -1
            /\ SignalIs(1, 2) => means[r][choice[r] + 1] = Mean(10, 1)

\* C4, amended: the ratio is second smallest / smallest, 1.2 for 10 and 12: the
\* row is -1 under the thresholds 1.2 and 1.5 and keeps the darkest index under
\* 0.9 and 0.5; with a non-zero threshold a row is -1 exactly when its smallest
\* mean is not 0 and second smallest / smallest <= threshold.
C4_Ambiguity ==
    (pc = "choose_done" /\ result.status = "returned") =>
        \A r \in Rows :
            /\ TwoDarkest(means[r], 10, 12) =>
                  /\ (SignalIs(6, 5) \/ SignalIs(3, 2)) => choice[r] = -1
                  /\ (SignalIs(9, 10) \/ SignalIs(1, 2)) =>
                        /\ choice[r] # -1
                        /\ means[r][choice[r] + 1] = Mean(10, 1)
            /\ form.signal.n # 0 =>
                  (choice[r] = -1 <=>
                     \E j, k \in Cols :
                        /\ TwoDarkestAt(means[r], j, k)
                        /\ means[r][j].s # 0
                        /\ means[r][k].s * means[r][j].n * form.signal.d
                             <= form.signal.n * means[r][k].n * means[r][j].s)

\* a row with the two darkest means 10 and 12 was overwritten under the
\* threshold 1.2 while another row kept its darkest index
C4_Witness ==
    /\ pc = "choose_done"
    /\ result.status = "returned"
    /\ SignalIs(6, 5)
    /\ \E r \in Rows : TwoDarkest(means[r], 10, 12) /\ choice[r] = -1
    /\ \E r \in Rows : choice[r] # -1

\* C5: choose_answers returns one integer per row, each -1 or a column index in
\* [0, cols); with the signal threshold zero it returns, no entry is -1 and each
\* entry is the index of a cell holding the row's minimum mean, so a row whose
\* column 0 is fully dark and whose other cells are fully light yields 0.
C5_Selection ==
    pc = "choose_done" =>
        /\ result.status = "returned" =>
              /\ DOMAIN choice = Rows
              /\ \A r \in Rows : choice[r] \in {-1} \cup {c - 1 : c \in Cols}
        /\ form.signal.n = 0 =>
              /\ result.status = "returned"
              /\ \A r \in Rows :
                    /\ choice[r] # -1
                    /\ \A c \in Cols : AtMost(means[r][choice[r] + 1], means[r][c])
                    /\ (/\ means[r][1] = Mean(Black, 1)
                        /\ \A c \in Cols \ {1} : means[r][c] = Mean(White, 1))
                          => choice[r] = 0

\* two rows were answered with the threshold unset: one with column 0 fully
\* dark and the rest light, one with its darkest cell elsewhere
C5_Witness ==
    /\ pc = "choose_done"
    /\ form.signal.n = 0
    /\ form.size = <<2, 3>>
    /\ \E r \in Rows :
          /\ means[r] = <<Mean(Black, 1), Mean(White, 1), Mean(White, 1)>>
          /\ choice[r] = 0
    /\ \E r \in Rows : choice[r] = 2

(***************************************************************************)
(* Form.check_size                                                         *)
(***************************************************************************)
\* pctdiff < size_tolerance on every axis
WithinToleranceStrict(shape, expected, tol) ==
    \A k \in 1..2 :
        /\ expected[k] # 0
        /\ Abs(shape[k] - expected[k]) * tol[k].d < tol[k].n * Abs(expected[k])

\* num.all(pctdiff <= self.size_tolerance), pctdiff = |shape - expected| / expected
\* (a division by 0 gives inf or nan, neither of which is <= a tolerance)
WithinTolerance(shape, expected, tol) ==
    \A k \in 1..2 :
        /\ expected[k] # 0
        /\ Abs(shape[k] - expected[k]) * tol[k].d <= tol[k].n * Abs(expected[k])

\* raises StandardError (a NameError where Python has no StandardError), else
\* returns None
check_size(m, f) ==
    IF ~WithinTolerance(Shape(m), f.expected_size, f.size_tolerance)
    THEN Raised("StandardError")
    ELSE Returned(None)

CheckSize ==
    /\ pc = "check_size"
    /\ result' = check_size(img, form)
    /\ pc' = "size_done"
    /\ UNCHANGED <<img, form, oldsize, i, run, input, first, fit, meanfit, means,
                   choice, env>>

ExpectedSides == {10, 20}

Tolerances == {[n |-> 0, d |-> 1], [n |-> 1, d |-> 10], [n |-> 1, d |-> 5]}

SizeInit ==
    /\ \E eh \in ExpectedSides, ew \in ExpectedSides, th \in Tolerances,
          tw \in Tolerances, dh \in -MaxDev..MaxDev, dw \in -MaxDev..MaxDev :
          /\ form = [NoForm EXCEPT !.expected_size = <<eh, ew>>,
                                   !.size_tolerance = <<th, tw>>]
          /\ img = MkImage(eh + dh, ew + dw, {})
    /\ input = img
    /\ pc = "check_size"
    /\ oldsize = <<0, 0>>
    /\ i = 0
    /\ run = 1
    /\ first = None
    /\ fit = None
    /\ meanfit = None
    /\ means = None
    /\ choice = None
    /\ result = Pending
    /\ env = {}

SizeNext == CheckSize

SpecSize == SizeInit /\ [][SizeNext]_vars

\* |actual - expected| on axis k
Dev(k) == Abs(Shape(img)[k] - form.expected_size[k])

\* Dev(k) / expected = tolerance, Dev(k) / expected > tolerance
AtTolerance(k, dev) ==
    dev * form.size_tolerance[k].d = form.size_tolerance[k].n * form.expected_size[k]

OverTolerance(k, dev) ==
    dev * form.size_tolerance[k].d > form.size_tolerance[k].n * form.expected_size[k]

\* C8: check_size raises iff some axis deviates by more than its tolerance
\* fraction: an image exactly at the tolerance on its axes passes, an axis one
\* pixel further fails; and check_size changes neither the form nor the image.
C8_SizeBoundary ==
    /\ [](pc = "size_done" =>
            /\ result.status = "StandardError" <=> \E k \in 1..2 : OverTolerance(k, Dev(k))
            /\ result.status \in {"StandardError", "returned"}
            /\ (\A k \in 1..2 : AtTolerance(k, Dev(k))) => result.status = "returned"
            /\ (\E k \in 1..2 : AtTolerance(k, Dev(k) - 1)) =>
                  result.status = "StandardError")
    /\ [][pc = "check_size" => (img' = img /\ form' = form)]_vars

\* an image two pixels off 10 and two pixels off 20, exactly at the tolerances
\* 1/5 and 1/10, has passed
C8_Witness ==
    /\ pc = "size_done"
    /\ result.status = "returned"
    /\ Dev(1) = 2 /\ AtTolerance(1, Dev(1))
    /\ Dev(2) = 2 /\ AtTolerance(2, Dev(2))
    /\ img = input

(***************************************************************************)
(* center_on_box and Form.fit_reference                                    *)
(***************************************************************************)
na_val == -9999

Sentinel == <<na_val, na_val>>

\* 255 * (img >= contrast): a new array, img itself is not written
Binarize(m, contrast) ==
    [m EXCEPT !.px = [p \in DOMAIN m.px |-> IF m.px[p] >= contrast THEN 255 ELSE 0]]

\* the 1-based indices that the slice lo:hi selects on an axis of length n
\* (a negative bound counts from the end, and bounds are clipped to the axis)
PySlice(lo, hi, n) ==
    LET a == IF lo < 0 THEN Max(lo + n, 0) ELSE Min(lo, n)
        b == IF hi < 0 THEN Max(hi + n, 0) ELSE Min(hi, n)
    IN  (a + 1)..b

RECURSIVE SumOver(_, _)
SumOver(m, ps) ==
    IF ps = {} THEN 0
    ELSE LET p == CHOOSE q \in ps : TRUE IN m.px[p] + SumOver(m, ps \ {p})

\* num.mean(img[x0:x1, y0:y1]); nan (n = 0) for an empty slice
WindowMean(m, x0, x1, y0, y1) ==
    LET ps == PySlice(x0, x1, m.h) \X PySlice(y0, y1, m.w) IN
    Mean(SumOver(m, ps), Cardinality(ps))

\* zip(x.flatten(), y.flatten()) for x, y = meshgrid(arange(-r, r), arange(-r, r)):
\* the first component runs fastest, and neither reaches +r
Meshgrid(r) ==
    [k \in 1..(4 * r * r) |-> <<((k - 1) % (2 * r)) - r, ((k - 1) \div (2 * r)) - r>>]

InRadius(p, r) == p[1] * p[1] + p[2] * p[2] <= r * r

\* coords: the offsets tried, in the order they are tried
Coords(r) == SelectSeq(Meshgrid(r), LAMBDA p : InRadius(p, r))

\* center_on_box(img, radius, min_ref, xmin, xmax, ymin, ymax), for radius > 0
center_on_box(m, radius, min_ref, ref) ==
    LET coords == Coords(radius)
        fits == [k \in 1..Len(coords) |->
                  WindowMean(m, ref[1] + coords[k][1], ref[2] + coords[k][1],
                                ref[3] + coords[k][2], ref[4] + coords[k][2])]
        nums == {k \in 1..Len(coords) : ~IsNan(fits[k])}
        \* num.nanargmin: the first index of the smallest number
        best == CHOOSE k \in nums :
                   /\ \A l \in nums : ~Less(fits[l], fits[k])
                   /\ \A l \in nums : l < k => Less(fits[k], fits[l])
    IN  \* num.nanmin(fit) <= min_ref; nanmin is nan when every entry is
        IF nums # {} /\ fits[best].s <= min_ref * fits[best].n
        THEN coords[best]
        ELSE Sentinel

\* the mask num.ma.masked_array is given: `fit == -9999` with fit a Python list
\* of arrays is the single value False, which masks no entry
FitMask(f) == [k \in 1..Len(f) |-> FALSE]

RECURSIVE SumAxis(_, _, _)
SumAxis(f, ks, axis) ==
    IF ks = {} THEN 0
    ELSE LET k == CHOOSE q \in ks : TRUE IN f[k][axis] + SumAxis(f, ks \ {k}, axis)

\* fit_reference(img): the value is <<meanfit, fit>>
fit_reference(m, f) ==
    LET bw_img == Binarize(m, f.contrast)
        boxes == [k \in 1..Len(f.refzone) |->
                   center_on_box(bw_img, f.radius, f.min_ref, f.refzone[k])]
        mask == FitMask(boxes)
        kept == {k \in 1..Len(boxes) : ~mask[k]}
    IN  \* meanfit[0] is num.ma.masked: every entry of the column is masked
        IF kept = {} THEN Raised("StandardError")
        ELSE Returned(<<<<AsTypeI(SumAxis(boxes, kept, 1), Cardinality(kept)),
                          AsTypeI(SumAxis(boxes, kept, 2), Cardinality(kept))>>,
                        boxes>>)

FitReference ==
    /\ pc = "fit_reference"
    /\ result' = fit_reference(img, form)
    /\ IF result'.status = "returned"
       THEN meanfit' = result'.value[1] /\ fit' = result'.value[2]
       ELSE UNCHANGED <<meanfit, fit>>
    /\ pc' = "fit_done"
    /\ UNCHANGED <<img, form, oldsize, i, run, input, first, means, choice, env>>

\* a white page with a few ink pixels, and the page that is all ink
RefImages ==
    {MkImage(RefSide, RefSide, s) : s \in InkSets(RefSide, RefSide)}
      \cup {MkImage(RefSide, RefSide, Cells(RefSide, RefSide))}

\* reference rectangles [xmin, xmax, ymin, ymax], 0-based and half open
RefBoxes == {<<1, 2, 1, 2>>, <<2, 3, 2, 3>>, <<1, 3, 2, 3>>}

RefZones == UNION {[1..n -> RefBoxes] : n \in 1..MaxBoxes}

MinRefs == {0, 128}

RefInit ==
    /\ img \in RefImages
    /\ input = img
    /\ \E zone \in RefZones, r \in 1..MaxRadius, mr \in MinRefs :
          form = [NoForm EXCEPT !.refzone = zone, !.radius = r, !.min_ref = mr,
                                !.contrast = 128]
    /\ pc = "fit_reference"
    /\ oldsize = <<0, 0>>
    /\ i = 0
    /\ run = 1
    /\ first = None
    /\ fit = <<>>
    /\ meanfit = <<0, 0>>
    /\ means = None
    /\ choice = None
    /\ result = Pending
    /\ env = {}

RefNext == FitReference

SpecRef == RefInit /\ [][RefNext]_vars

\* every integer offset within the Euclidean distance r of the origin
Disc(r) == {p \in (-r..r) \X (-r..r) : InRadius(p, r)}

\* the mean of reference box k of the binarized image, moved by the offset p
BoxMean(k, p) ==
    LET ref == form.refzone[k] IN
    WindowMean(Binarize(img, form.contrast), ref[1] + p[1], ref[2] + p[1],
               ref[3] + p[2], ref[4] + p[2])

Matches(k, p) == ~IsNan(BoxMean(k, p)) /\ BoxMean(k, p).s <= form.min_ref * BoxMean(k, p).n

Boxes == 1..Len(form.refzone)

Matched == {k \in Boxes : fit[k] # Sentinel}

\* ascending Euclidean distance, then row offset, then column offset
Before(p, q) ==
    LET dp == p[1] * p[1] + p[2] * p[2]
        dq == q[1] * q[1] + q[2] * q[2]
    IN  \/ dp < dq
        \/ dp = dq /\ p[1] < q[1]
        \/ dp = dq /\ p[1] = q[1] /\ p[2] < q[2]

\* C2: a box none of whose offsets has a mean <= min_ref gets the sentinel, and
\* when every box got the sentinel fit_reference raises instead of returning an
\* offset.
C2_SentinelFails ==
    pc = "fit_done" =>
        /\ result.status = "returned" =>
              \A k \in Boxes :
                  (\A p \in Disc(form.radius) : ~Matches(k, p)) => fit[k] = Sentinel
        /\ (\A k \in Boxes : \A p \in Disc(form.radius) : ~Matches(k, p)) =>
              result.status # "returned"

\* C3: when at least one box matched, the aggregated offset is the mean of the
\* offsets of the matched boxes alone, brought to an integer (less than 1 away
\* from that mean on each axis).
C3_MeanOfMatches ==
    (pc = "fit_done" /\ result.status = "returned" /\ Matched # {}) =>
        \A axis \in 1..2 :
            Abs(meanfit[axis] * Cardinality(Matched) - SumAxis(fit, Matched, axis))
                < Cardinality(Matched)

\* C9: a box that has a matching offset in the disc gets the offset of minimum
\* mean over the whole disc, the first such in the order distance, row, column.
C9_BestOffset ==
    (pc = "fit_done" /\ result.status = "returned") =>
        \A k \in Boxes :
            (\E p \in Disc(form.radius) : Matches(k, p)) =>
                /\ fit[k] \in Disc(form.radius)
                /\ \A p \in Disc(form.radius) :
                      /\ ~Less(BoxMean(k, p), BoxMean(k, fit[k]))
                      /\ (~IsNan(BoxMean(k, p)) /\ ~Less(BoxMean(k, fit[k]), BoxMean(k, p)))
                            => ~Before(p, fit[k])

(***************************************************************************)
(* The whole of trim_margins, as process_exam calls it                     *)
(***************************************************************************)
\* the k iterations of the for loop that are still to run
RECURSIVE TrimPass(_, _, _)
TrimPass(m, t, k) ==
    IF k = 0 THEN [raised |-> FALSE, img |-> m]
    ELSE LET step == TrimStep(m, t) IN
         IF step.raised THEN step ELSE TrimPass(step.img, t, k - 1)

RECURSIVE TrimFrom(_, _, _)
TrimFrom(m, old, t) ==
    IF ~SizeChanged(old, m) THEN Returned(m)
    ELSE LET pass == TrimPass(m, t, 4) IN
         IF pass.raised THEN Raised("IndexError")
         ELSE TrimFrom(pass.img, Shape(m), t)

trim_margins(m, t) == TrimFrom(m, <<0, 0>>, t)

(***************************************************************************)
(* Form.calc_coords, set_offset, get_bubble_means and the overlays         *)
(***************************************************************************)
\* coords[i, j] = (i0, i1, j0, j1), i and j numbered from 1 here
calc_coords(f) ==
    [r \in 1..f.size[1] |-> [c \in 1..f.size[2] |->
        <<f.pos[1] + (r - 1) * f.space[1],
          f.pos[1] + (r - 1) * f.space[1] + f.bub[1],
          f.pos[2] + (c - 1) * f.space[2],
          f.pos[2] + (c - 1) * f.space[2] + f.bub[2]>>]]

Shift(rect, r, c) == <<rect[1] + r, rect[2] + r, rect[3] + c, rect[4] + c>>

set_offset(f, r, c) ==
    LET g == [f EXCEPT !.offset = <<f.offset[1] + r, f.offset[2] + c>>,
                       !.pos = <<f.pos[1] + r, f.pos[2] + c>>,
                       !.info = IF f.info # <<>> THEN Shift(f.info, r, c) ELSE f.info,
                       !.score = IF f.score # <<>> THEN Shift(f.score, r, c) ELSE f.score]
    IN  [g EXCEPT !.coords = calc_coords(g)]

get_bubble_means(m, f) ==
    LET bw_img == Binarize(m, f.contrast) IN
    [r \in 1..f.size[1] |-> [c \in 1..f.size[2] |->
        WindowMean(bw_img, f.coords[r][c][1], f.coords[r][c][2],
                           f.coords[r][c][3], f.coords[r][c][4])]]

\* img[x0:x1, y0:y1] = val
Paint(m, x0, x1, y0, y1, val) ==
    LET ps == PySlice(x0, x1, m.h) \X PySlice(y0, y1, m.w) IN
    [m EXCEPT !.px = [p \in DOMAIN m.px |-> IF p \in ps THEN val ELSE m.px[p]]]

\* plus(img, x, y, val, r): img[x-1:x, y-r:y+r], img[x-r:x+r, y-1:y] = val, val
plus(m, x, y, val, r) ==
    Paint(Paint(m, x - 1, x, y - r, y + r, val), x - r, x + r, y - 1, y, val)

off == 25

PlusR == 10

PanelR == 15

\* the body of the for loop of overlay_ref_fit, for one box
OverlayBox(m, ref, o, c) ==
    LET a == plus(m, c[1], c[2], 120, PanelR)
        b == plus(a, c[1] + o[1], c[2] + o[2], 0, PlusR)
        d == plus(b, ref[1], ref[3], 150, PlusR)
        e == plus(d, ref[2], ref[4], 150, PlusR)
        g == plus(e, ref[1] + o[1], ref[3] + o[2], 0, PlusR)
    IN  plus(g, ref[2] + o[1], ref[4] + o[2], 0, PlusR)

RECURSIVE OverlayBoxes(_, _, _, _, _)
OverlayBoxes(m, zone, fits, centers, k) ==
    IF k > Len(zone) THEN m
    ELSE OverlayBoxes(OverlayBox(m, zone[k], fits[k], centers[k]),
                      zone, fits, centers, k + 1)

\* overlay_ref_fit(img, mean, fit): draws into img itself and returns it
overlay_ref_fit(m, f, mean, fits) ==
    IF Len(f.refzone) # 4 THEN m
    ELSE LET centers == <<<<f.ref_rc[1] - off, f.ref_rc[2] - off>>,
                          <<f.ref_rc[1] - off, f.ref_rc[2] + off>>,
                          <<f.ref_rc[1] + off, f.ref_rc[2] - off>>,
                          <<f.ref_rc[1] + off, f.ref_rc[2] + off>>>>
             a == plus(m, f.ref_rc[1], f.ref_rc[2], 150, PanelR)
             b == plus(a, f.ref_rc[1] + mean[1], f.ref_rc[2] + mean[2], 0, PlusR)
         IN  OverlayBoxes(b, f.refzone, fits, centers, 1)

\* float -> uint8 of a mean in [0, 255]
AsUint8(a) == a.s \div a.n

RECURSIVE PaintCells(_, _, _, _)
PaintCells(m, f, ms, k) ==
    IF k > f.size[1] * f.size[2] THEN m
    ELSE LET r == ((k - 1) \div f.size[2]) + 1
             c == ((k - 1) % f.size[2]) + 1
             rect == f.coords[r][c]
         IN  \* the slice of a nan mean is the empty slice: nothing is written
             PaintCells(IF IsNan(ms[r][c]) THEN m
                        ELSE Paint(m, rect[1], rect[2], rect[3], rect[4], AsUint8(ms[r][c])),
                        f, ms, k + 1)

overlay_bubble_means(m, f, ms) == PaintCells(m, f, ms, 1)

(***************************************************************************)
(* process_exam                                                            *)
(***************************************************************************)
Diagnostics ==
    {"overlay_ref_fit", "overlay_bubble_means", "write_info_image", "write_validation"}

\* process_exam has no try block: what a callee raises leaves process_exam
ExamRaise(e) ==
    /\ pc' = "exam.raised"
    /\ result' = Raised(e)

\* img = form.trim_margins(img)
ExamTrimMargins ==
    /\ pc = "exam.trim_margins"
    /\ LET r == trim_margins(img, form.trim_std) IN
       IF r.status = "returned"
       THEN /\ img' = r.value
            /\ first' = r.value
            /\ pc' = "exam.check_size"
            /\ UNCHANGED result
       ELSE /\ ExamRaise(r.status)
            /\ UNCHANGED <<img, first>>
    /\ UNCHANGED <<form, oldsize, i, run, input, fit, meanfit, means, choice, env>>

\* form.check_size(img); if form.refzone:
ExamCheckSize ==
    /\ pc = "exam.check_size"
    /\ LET r == check_size(img, form) IN
       IF r.status = "returned"
       THEN /\ pc' = IF form.refzone # <<>> THEN "exam.fit_reference"
                                            ELSE "exam.get_bubble_means"
            /\ UNCHANGED result
       ELSE ExamRaise(r.status)
    /\ UNCHANGED <<img, form, oldsize, i, run, input, first, fit, meanfit, means,
                   choice, env>>

\* meanfit, fit = form.fit_reference(img)
ExamFitReference ==
    /\ pc = "exam.fit_reference"
    /\ LET r == fit_reference(img, form) IN
       IF r.status = "returned"
       THEN /\ meanfit' = r.value[1]
            /\ fit' = r.value[2]
            /\ pc' = "exam.overlay_ref_fit"
            /\ UNCHANGED result
       ELSE /\ ExamRaise(r.status)
            /\ UNCHANGED <<meanfit, fit>>
    /\ UNCHANGED <<img, form, oldsize, i, run, input, first, means, choice, env>>

\* img = form.overlay_ref_fit(img, meanfit, fit)
ExamOverlayRefFit ==
    /\ pc = "exam.overlay_ref_fit"
    /\ IF "overlay_ref_fit" \in env
       THEN /\ ExamRaise("overlay_ref_fit")
            /\ UNCHANGED img
       ELSE /\ img' = overlay_ref_fit(img, form, meanfit, fit)
            /\ pc' = "exam.set_offset"
            /\ UNCHANGED result
    /\ UNCHANGED <<form, oldsize, i, run, input, first, fit, meanfit, means, choice, env>>

\* form.set_offset(*meanfit)
ExamSetOffset ==
    /\ pc = "exam.set_offset"
    /\ form' = set_offset(form, meanfit[1], meanfit[2])
    /\ pc' = "exam.get_bubble_means"
    /\ UNCHANGED <<img, oldsize, i, run, input, first, fit, meanfit, means, choice,
                   result, env>>

\* bubble_means = form.get_bubble_means(img)
ExamGetBubbleMeans ==
    /\ pc = "exam.get_bubble_means"
    /\ means' = get_bubble_means(img, form)
    /\ pc' = "exam.choose_answers"
    /\ UNCHANGED <<img, form, oldsize, i, run, input, first, fit, meanfit, choice,
                   result, env>>

\* choice = form.choose_answers(bubble_means)
ExamChooseAnswers ==
    /\ pc = "exam.choose_answers"
    /\ LET r == choose_answers(means, form.signal) IN
       IF r.status = "returned"
       THEN /\ choice' = r.value
            /\ pc' = "exam.overlay_bubble_means"
            /\ UNCHANGED result
       ELSE /\ ExamRaise(r.status)
            /\ UNCHANGED choice
    /\ UNCHANGED <<img, form, oldsize, i, run, input, first, fit, meanfit, means, env>>

\* img = form.overlay_bubble_means(img, bubble_means)
ExamOverlayBubbleMeans ==
    /\ pc = "exam.overlay_bubble_means"
    /\ IF "overlay_bubble_means" \in env
       THEN /\ ExamRaise("overlay_bubble_means")
            /\ UNCHANGED img
       ELSE /\ img' = overlay_bubble_means(img, form, means)
            /\ pc' = "exam.write_info_image"
            /\ UNCHANGED result
    /\ UNCHANGED <<form, oldsize, i, run, input, first, fit, meanfit, means, choice, env>>

\* form.write_info_image(img, name_file): writes a file only when info is set
ExamWriteInfoImage ==
    /\ pc = "exam.write_info_image"
    /\ IF form.info # <<>> /\ "write_info_image" \in env
       THEN ExamRaise("write_info_image")
       ELSE /\ pc' = "exam.write_validation"
            /\ UNCHANGED result
    /\ UNCHANGED <<img, form, oldsize, i, run, input, first, fit, meanfit, means,
                   choice, env>>

\* form.write_validation(img, val_file)
ExamWriteValidation ==
    /\ pc = "exam.write_validation"
    /\ IF "write_validation" \in env
       THEN ExamRaise("write_validation")
       ELSE /\ pc' = "exam.return"
            /\ UNCHANGED result
    /\ UNCHANGED <<img, form, oldsize, i, run, input, first, fit, meanfit, means,
                   choice, env>>

\* return choice
ExamReturn ==
    /\ pc = "exam.return"
    /\ result' = Returned(choice)
    /\ pc' = "exam.returned"
    /\ UNCHANGED <<img, form, oldsize, i, run, input, first, fit, meanfit, means,
                   choice, env>>

\* The sheet: four reference boxes in the corners and a 2 x 2 grid of bubbles,
\* the second row of bubbles level with the top edge of the lower boxes.
ExamRefzone == <<<<4, 6, 4, 6>>, <<4, 6, 26, 28>>, <<26, 28, 4, 6>>, <<26, 28, 26, 28>>>>

ExamForm ==
    [NoForm EXCEPT !.size = <<2, 2>>, !.pos = <<12, 12>>, !.bub = <<2, 2>>,
                   !.space = <<12, 6>>, !.contrast = 128, !.radius = 2,
                   !.expected_size = <<ExamSide, ExamSide>>, !.ref_rc = <<16, 16>>]

Rect(r) == PySlice(r[1], r[2], ExamSide) \X PySlice(r[3], r[4], ExamSide)

\* the ink of a sheet scanned with the displacement d: the reference boxes
\* (when the sheet has them) and the bubbles that were filled in
SheetInk(d, boxes, filled) ==
    UNION {Rect(Shift(ExamRefzone[k], d[1], d[2])) : k \in boxes}
      \cup UNION {Rect(Shift(calc_coords(ExamForm)[b[1]][b[2]], d[1], d[2])) : b \in filled}

\* (2, 0) is a displacement the search does not try
Displacements == {<<0, 0>>, <<0, -2>>, <<2, 0>>}

\* trim_std with a size tolerance; the diagnostics step that fails with info
ExamTrims == {<<0, [n |-> 1, d |-> 10]>>, <<1, [n |-> 1, d |-> 10]>>,
              <<1, [n |-> 1, d |-> 4]>>}

ExamEnvs == {<<{}, <<>>>>, <<{"write_info_image"}, <<>>>>}
              \cup {<<{x}, <<0, 4, 8, 24>>>> : x \in Diagnostics}

ExamInit ==
    /\ \/ \E d \in Displacements, filled \in SUBSET {<<1, 1>>, <<2, 2>>} :
             img = MkImage(ExamSide, ExamSide, SheetInk(d, 1..4, filled))
       \/ img = MkImage(ExamSide, ExamSide, {})
    /\ \E zone \in {<<>>, <<ExamRefzone[1]>>, ExamRefzone},
          sig \in {[n |-> 0, d |-> 1], [n |-> 6, d |-> 5]},
          tt \in ExamTrims, e \in ExamEnvs :
          LET f == [ExamForm EXCEPT !.refzone = zone, !.signal = sig,
                                    !.trim_std = tt[1],
                                    !.size_tolerance = <<tt[2], tt[2]>>,
                                    !.info = e[2]]
          IN  /\ form = [f EXCEPT !.coords = calc_coords(f)]
              /\ env = e[1]
    /\ input = img
    /\ pc = "exam.trim_margins"
    /\ oldsize = <<0, 0>>
    /\ i = 0
    /\ run = 1
    /\ first = MkImage(0, 0, {})
    /\ fit = <<>>
    /\ meanfit = <<0, 0>>
    /\ means = <<>>
    /\ choice = <<>>
    /\ result = Pending

Next ==
    \/ ExamTrimMargins
    \/ ExamCheckSize
    \/ ExamFitReference
    \/ ExamOverlayRefFit
    \/ ExamSetOffset
    \/ ExamGetBubbleMeans
    \/ ExamChooseAnswers
    \/ ExamOverlayBubbleMeans
    \/ ExamWriteInfoImage
    \/ ExamWriteValidation
    \/ ExamReturn

Spec == ExamInit /\ [][Next]_vars

\* C1: a diagnostics step that fails neither changes nor suppresses the answer:
\* once choose_answers has returned a choice, process_exam does not end on an
\* exception, and what it returns is that choice.
C1_DiagnosticsNeverSuppress ==
    /\ (pc = "exam.raised" /\ choice # <<>>) => result.status \notin Diagnostics
    /\ pc = "exam.returned" => result = Returned(choice)

\* C10: the overlays do not influence the analysis: the bubble means are those
\* of the image trim_margins returned, and so are the answers.
C10_OverlayAfterAnalysis ==
    /\ pc = "exam.choose_answers" => means = get_bubble_means(first, form)
    /\ pc = "exam.overlay_bubble_means" =>
          choice = choose_answers(get_bubble_means(first, form), form.signal).value

====
